---- MODULE Spec2Model ----
(***************************************************************************)
(* Phi-4 multimodal language core (mlx_vlm/models/phi4mm/phi4mm.py).       *)
(*                                                                         *)
(* Three specifications over one set of variables:                         *)
(*   SpecConfig : ModelConfig.__post_init__ followed by Attention.__init__ *)
(*                (rope_scaling validation and rotary-encoder selection);  *)
(*   SpecBuild  : Phi4Model.__init__, the two LoRA attachment passes;      *)
(*   Spec       : Phi4Model.__call__, statement by statement, against a    *)
(*                caller-owned list of KV-cache slots.                     *)
(***************************************************************************)
EXTENDS Integers, Sequences, FiniteSets, TLC

VARIABLES
    \* ---- ModelConfig / Attention construction ----
    cpc,          \* "off" | "new" | "accepted" | "rejected" | "built" | "buildfailed"
    rsOrig,       \* the rope_scaling descriptor handed to ModelConfig
    ropeScaling,  \* config.rope_scaling as it stands now
    nkv,          \* config.num_key_value_heads (None when unset)
    warned,       \* whether the [WARNING] line was printed
    cerr,         \* exception raised by construction, "" when none
    rope,         \* the rotary encoder Attention.__init__ built
    \* ---- Phi4Model.__init__ adapter attachment ----
    bpc,          \* "off" | "init" | "vision_done" | "built" | "failed"
    visionLora,   \* config.vision_lora
    speechLora,   \* config.speech_lora
    modules,      \* projection -> chain of LoRaLayer tags around the base Linear
    \* ---- Phi4Model.__call__ ----
    pc,           \* position inside the forward call
    hasFusion,    \* self.embed_tokens_extend is not None
    lora,         \* adapter layer -> active tag
    kv,           \* the caller's cache list (sequence of slots)
    hasKv,        \* whether the caller has created a cache list
    fed,          \* tokens fed through the cache list so far
    raw,          \* kwargs["input_mode"] as passed
    pixel,        \* pixel_values is not None
    embeds,       \* input_image_embeds / input_audio_embeds passed in kwargs
    seqLen,       \* input_ids.shape[1]
    useCache,     \* cache argument is not None
    mode,         \* input_mode after InputMode(...)
    apm,          \* audio_projection_mode
    h,            \* the hidden-state sequence
    maskOff,      \* diagonal offset of the attention mask
    li,           \* number of (layer, slot) pairs of the zip consumed so far
    runs,         \* the TransformerBlock executions of this call, in order
    writes,       \* adapter-state mutations made by this call
    err,          \* exception raised by this call, "" when none
    pre           \* adapter and cache state when the call was entered

cfgVars   == <<cpc, rsOrig, ropeScaling, nkv, warned, cerr, rope>>
buildVars == <<bpc, visionLora, speechLora, modules>>
callVars  == <<pc, hasFusion, lora, kv, hasKv, fed, raw, pixel, embeds, seqLen,
               useCache, mode, apm, h, maskOff, li, runs, writes, err, pre>>
vars      == <<cfgVars, buildVars, callVars>>

-----------------------------------------------------------------------------
(* Optional values are sequences of length at most one: <<>> is None.      *)
None == <<>>
Some(v) == <<v>>

(***************************************************************************)
(* ModelConfig.__post_init__ and Attention.__init__                        *)
(***************************************************************************)
NumHeads == 4

RopeKeys == {"type", "long_factor", "short_factor", "factor"}

(* Values a descriptor may give each key: three recognized types and one   *)
(* unrecognized one, a factor table, a float or an int factor.             *)
RopeValues(k) ==
    IF k = "type" THEN {"linear", "su", "longrope", "yarn"}
    ELSE IF k = "factor" THEN {"float", "int"}
    ELSE {"table"}

Dicts == UNION { { d \in [ks -> {"linear", "su", "longrope", "yarn", "float", "int", "table"}] :
                     \A k \in ks : d[k] \in RopeValues(k) } : ks \in SUBSET RopeKeys }

(* Optional[Dict]: set = FALSE is None.                                    *)
NoDict == [set |-> FALSE, d |-> <<>>]
RopeDescriptors == {NoDict} \cup { [set |-> TRUE, d |-> d] : d \in Dicts }

(* Python truthiness of Optional[Dict]: None and {} are false.             *)
Truthy(rs) == rs.set /\ DOMAIN rs.d # {}

Has(rs, k) == k \in DOMAIN rs.d

NoRope == [kind |-> "none", scale |-> "none"]

(* Lines 47-56 with the check of the type left out: an unrecognized type   *)
(* stays in the descriptor.                                                *)
PostInitRope_KeepsUnknown(rs) ==
    IF ~Truthy(rs) THEN [err |-> "", warned |-> FALSE, rs |-> rs]
    ELSE IF ~(\A key \in {"long_factor", "type"} : Has(rs, key))
         THEN [err |-> "ValueError", warned |-> FALSE, rs |-> rs]
    ELSE [err |-> "", warned |-> FALSE, rs |-> rs]

(* Lines 47-56: the rope_scaling part of __post_init__.                    *)
PostInitRope(rs) ==
    IF ~Truthy(rs) THEN [err |-> "", warned |-> FALSE, rs |-> rs]
    ELSE IF ~(\A key \in {"long_factor", "type"} : Has(rs, key))
         THEN [err |-> "ValueError", warned |-> FALSE, rs |-> rs]
    ELSE IF rs.d["type"] \notin {"longrope", "su", "linear"}
         THEN [err |-> "", warned |-> TRUE, rs |-> NoDict]
    ELSE [err |-> "", warned |-> FALSE, rs |-> rs]

(* Lines 76-96: the rotary encoder chosen by Attention.__init__; a dict    *)
(* subscript on a missing key raises KeyError, the isinstance assertion    *)
(* AssertionError.                                                         *)
AttentionRope(rs) ==
    IF Truthy(rs) /\ ~Has(rs, "type") THEN [err |-> "KeyError", rope |-> NoRope]
    ELSE IF Truthy(rs) /\ rs.d["type"] \in {"longrope", "su"}
         THEN IF Has(rs, "short_factor") /\ Has(rs, "long_factor")
              THEN [err |-> "", rope |-> [kind |-> "su", scale |-> "tables"]]
              ELSE [err |-> "KeyError", rope |-> NoRope]
    ELSE IF Truthy(rs) /\ rs.d["type"] = "linear"
         THEN IF ~Has(rs, "factor") THEN [err |-> "KeyError", rope |-> NoRope]
              ELSE IF rs.d["factor"] # "float"
                   THEN [err |-> "AssertionError", rope |-> NoRope]
              ELSE [err |-> "", rope |-> [kind |-> "fixed", scale |-> "1/factor"]]
    ELSE [err |-> "", rope |-> [kind |-> "fixed", scale |-> "1.0"]]

InitConfigVars ==
    /\ cpc = "new"
    /\ rsOrig \in RopeDescriptors
    /\ ropeScaling = rsOrig
    /\ nkv \in {None, Some(2)}
    /\ warned = FALSE
    /\ cerr = ""
    /\ rope = NoRope

IdleConfigVars ==
    /\ cpc = "off"
    /\ rsOrig = NoDict
    /\ ropeScaling = NoDict
    /\ nkv = None
    /\ warned = FALSE
    /\ cerr = ""
    /\ rope = NoRope

(* ModelConfig.__post_init__, lines 43-56.                                 *)
PostInit ==
    /\ cpc = "new"
    /\ LET r == PostInitRope(ropeScaling) IN
         /\ nkv' = IF nkv = None THEN Some(NumHeads) ELSE nkv
         /\ cerr' = r.err
         /\ warned' = r.warned
         /\ ropeScaling' = r.rs
         /\ cpc' = IF r.err = "" THEN "accepted" ELSE "rejected"
    /\ UNCHANGED <<rsOrig, rope>>
    /\ UNCHANGED <<buildVars, callVars>>

(* Attention.__init__, lines 60-96, on an accepted config.                 *)
AttentionInit ==
    /\ cpc = "accepted"
    /\ LET r == IF nkv = None
                THEN [err |-> "AssertionError", rope |-> NoRope]
                ELSE AttentionRope(ropeScaling) IN
         /\ cerr' = r.err
         /\ rope' = r.rope
         /\ cpc' = IF r.err = "" THEN "built" ELSE "buildfailed"
    /\ UNCHANGED <<rsOrig, ropeScaling, nkv, warned>>
    /\ UNCHANGED <<buildVars, callVars>>

(***************************************************************************)
(* Phi4Model.__init__: LoRA attachment                                     *)
(***************************************************************************)
NumProjections == 2

Projections == 1..NumProjections

Tags == {"vision", "speech"}

(* Fully-qualified module names: <<p, "">> is projection p's own name,     *)
(* <<p, ".base_layer">> the name of the Linear inside a LoRaLayer set at   *)
(* that name.                                                              *)
Names == Projections \X {"", ".base_layer"}

(* A layer pattern is the set of names re.match accepts.                   *)
Patterns == SUBSET Names

LoraConfigs == {[set |-> FALSE, layer |-> {}]} \cup
               {[set |-> TRUE, layer |-> pat] : pat \in Patterns}

(* self.named_modules() restricted to the nn.Linear instances: the base    *)
(* Linear of projection p sits under one ".base_layer" per wrapper.        *)
LinearName(chain, p) ==
    IF chain = <<>> THEN <<p, "">> ELSE <<p, ".base_layer">>

(* LoRaLayer(module, r, lora_alpha, dp, tag) around the base Linear.       *)
LoRaLayer(tag) == <<tag>>

(* set_module_by_name(self, name, lora_layer): the module at the dotted    *)
(* name is replaced, the modules above it are kept.                        *)
SetModuleByName(chain, name, layer) ==
    IF name[2] = "" THEN layer ELSE <<Head(chain)>> \o layer

(* name.replace(".base_layer", "")                                         *)
StripBaseLayer(name) == <<name[1], "">>

(* Lines 197-209 (strip = FALSE) and 217-229 (strip = TRUE): one pass over *)
(* named_modules(), wrapping every Linear whose name the pattern matches.  *)
AttachPass(mods, pattern, tag, strip) ==
    [p \in Projections |->
        LET name == LinearName(mods[p], p) IN
          IF name \in pattern
          THEN SetModuleByName(mods[p],
                               IF strip THEN StripBaseLayer(name) ELSE name,
                               LoRaLayer(tag))
          ELSE mods[p]]

(* The deltas reachable from the module installed at projection p.         *)
Deltas(p) == {modules[p][i] : i \in 1..Len(modules[p])}

InitBuildVars ==
    /\ bpc = "init"
    /\ visionLora \in LoraConfigs
    /\ speechLora \in LoraConfigs
    /\ modules = [p \in Projections |-> <<>>]

IdleBuildVars ==
    /\ bpc = "off"
    /\ visionLora = [set |-> FALSE, layer |-> {}]
    /\ speechLora = [set |-> FALSE, layer |-> {}]
    /\ modules = [p \in Projections |-> <<>>]

(* Lines 191-214: the vision pass.                                         *)
VisionPass ==
    /\ bpc = "init"
    /\ IF ~visionLora.set
       THEN /\ bpc' = "failed"
            /\ UNCHANGED modules
       ELSE /\ bpc' = "vision_done"
            /\ modules' = AttachPass(modules, visionLora.layer, "vision", FALSE)
    /\ UNCHANGED <<visionLora, speechLora>>
    /\ UNCHANGED <<cfgVars, callVars>>

(* Lines 216-234: the speech pass.                                         *)
SpeechPass ==
    /\ bpc = "vision_done"
    /\ IF ~speechLora.set
       THEN /\ bpc' = "failed"
            /\ UNCHANGED modules
       ELSE /\ bpc' = "built"
            /\ modules' = AttachPass(modules, speechLora.layer, "speech", TRUE)
    /\ UNCHANGED <<visionLora, speechLora>>
    /\ UNCHANGED <<cfgVars, callVars>>

(***************************************************************************)
(* Phi4Model.__call__                                                      *)
(***************************************************************************)
NumLayers   == 2     \* config.num_hidden_layers
NumAdapters == 2     \* adapter layers matched at construction
MaxLen      == 2     \* longest input_ids of one call
MaxTokens   == 3     \* most tokens fed through one cache list
MaxModeValue == 4    \* largest integer passed as input_mode
MaxSlots    == NumLayers + 1

Layers        == 1..NumLayers
AdapterLayers == 1..NumAdapters
ActiveTags    == {"none", "vision", "speech"}

Min(a, b) == IF a < b THEN a ELSE b

(* kwargs["input_mode"]: a scalar (None or an integer) or an mx.array.     *)
RawModes ==
    {[arr |-> FALSE, vs |-> None]}
    \cup {[arr |-> FALSE, vs |-> Some(v)] : v \in 0..MaxModeValue}
    \cup {[arr |-> TRUE, vs |-> <<v>>] : v \in 0..MaxModeValue}
    \cup {[arr |-> TRUE, vs |-> <<0, 1>>]}

(* The InputMode enum: InputMode(v) returns the member whose value is v    *)
(* and raises ValueError for any other v.                                  *)
InputMode(v) ==
    IF v = Some(0) THEN "LANGUAGE"
    ELSE IF v = Some(1) THEN "VISION"
    ELSE IF v = Some(2) THEN "SPEECH"
    ELSE IF v = Some(3) THEN "VISION_SPEECH"
    ELSE "ValueError"

(* Lines 244-248 with input_mode defaulting to LANGUAGE when the keyword   *)
(* is absent.                                                              *)
ResolveInputMode_DefaultsLanguage(r) ==
    IF r.arr /\ Len(r.vs) # 1 THEN [err |-> "AssertionError", mode |-> ""]
    ELSE IF r.vs = None THEN [err |-> "", mode |-> "LANGUAGE"]
    ELSE LET m == InputMode(r.vs) IN
           IF m = "ValueError" THEN [err |-> "ValueError", mode |-> ""]
           ELSE [err |-> "", mode |-> m]

(* Lines 244-248: unwrap a one-element array, then InputMode(input_mode).  *)
ResolveInputMode(r) ==
    IF r.arr /\ Len(r.vs) # 1 THEN [err |-> "AssertionError", mode |-> ""]
    ELSE LET m == InputMode(r.vs) IN
           IF m = "ValueError" THEN [err |-> "ValueError", mode |-> ""]
           ELSE [err |-> "", mode |-> m]

(* Lines 250-260 with VISION_SPEECH sent down the speech branch.           *)
AdapterFor_VisionSpeechAsSpeech(m) ==
    IF m = "VISION" THEN [adapter |-> "vision", apm |-> "vision"]
    ELSE IF m \in {"SPEECH", "VISION_SPEECH"} THEN [adapter |-> "speech", apm |-> "speech"]
    ELSE IF m = "LANGUAGE" THEN [adapter |-> "none", apm |-> "speech"]
    ELSE [adapter |-> "invalid", apm |-> ""]

(* Lines 250-260: the adapter and the audio projection mode of each mode.  *)
AdapterFor(m) ==
    IF m \in {"VISION_SPEECH", "VISION"} THEN [adapter |-> "vision", apm |-> "vision"]
    ELSE IF m = "SPEECH" THEN [adapter |-> "speech", apm |-> "speech"]
    ELSE IF m = "LANGUAGE" THEN [adapter |-> "none", apm |-> "speech"]
    ELSE [adapter |-> "invalid", apm |-> ""]

(* set_lora_adapter(tag): every matched adapter layer gets the tag.        *)
SetLoraAdapter(tag) == [a \in AdapterLayers |-> tag]

(* unset_lora_adapter(): no adapter is active on any layer.                *)
UnsetLoraAdapter == [a \in AdapterLayers |-> "none"]

(* The statements of __call__ in a wrong order: the embedding lookup runs  *)
(* before the adapter is selected.                                         *)
StepAfter_EmbedFirst(s) ==
    IF s = "resolve" THEN "embed"
    ELSE IF s = "embed" THEN "select"
    ELSE IF s = "select" THEN "mask"
    ELSE "layers"

(* The statements of __call__ in program order, lines 244-285.             *)
StepAfter(s) ==
    IF s = "resolve" THEN "select"
    ELSE IF s = "select" THEN "embed"
    ELSE IF s = "embed" THEN "mask"
    ELSE "layers"

NoHidden == [path |-> "none", wte |-> FALSE, apm |-> "", embeds |-> FALSE,
             len |-> 0, dim |-> "", normed |-> FALSE]

(* self.embed_tokens(input_ids): one hidden_size vector per token.         *)
EmbedTokens(n) == [path |-> "embed_tokens", wte |-> FALSE, apm |-> "", embeds |-> FALSE,
                   len |-> n, dim |-> "hidden_size", normed |-> FALSE]

(* Phi4MMImageAudioEmbedding.__call__: the merged sequence has the shape   *)
(* of the token-embedding lookup.                                          *)
FusionEmbedding(n, projMode, withEmbeds) ==
    [path |-> "embed_tokens_extend", wte |-> TRUE, apm |-> projMode, embeds |-> withEmbeds,
     len |-> n, dim |-> "hidden_size", normed |-> FALSE]

(* KVCache.offset                                                          *)
Offset(c) == Len(c)

(* KVCache.update_and_fetch(keys, values)                                  *)
UpdateAndFetch(c, new) == c \o new

(* create_attention_mask: query j of the window sees keys 1..off + j.      *)
CausalVisible(keys, off, j) == SubSeq(keys, 1, Min(Len(keys), off + j))

(* mask = create_attention_mask(h, cache): the offset of the first slot.   *)
MaskOffset(cache) == IF cache = None \/ Len(cache[1]) = 0 THEN 0 ELSE Offset(cache[1][1])

(* Lines 117-127 with rope called without the cache offset.                *)
AttentionCall_NoOffset(c, first, n, mOff) ==
    LET new  == [j \in 1..n |-> <<first + j, j - 1>>]
        keys == IF c = None THEN new ELSE UpdateAndFetch(c[1], new)
    IN  [qpos |-> [j \in 1..n |-> j - 1],
         keys |-> keys,
         seen |-> [j \in 1..n |-> CausalVisible(keys, mOff, j)]]

(* Attention.__call__, lines 104-129, for a window of n tokens numbered    *)
(* first+1..first+n: a key is <<token, rotary position>>.                  *)
AttentionCall(c, first, n, mOff) ==
    LET off  == IF c = None THEN 0 ELSE Offset(c[1])
        new  == [j \in 1..n |-> <<first + j, off + j - 1>>]
        keys == IF c = None THEN new ELSE UpdateAndFetch(c[1], new)
    IN  [qpos |-> [j \in 1..n |-> off + j - 1],
         keys |-> keys,
         seen |-> [j \in 1..n |-> CausalVisible(keys, mOff, j)]]

(* cache = [None] * len(self.layers) when no cache is passed.              *)
CacheArg == IF useCache THEN kv ELSE [i \in Layers |-> None]

(* zip(self.layers, cache) stops at the shorter of the two.                *)
ZipLen == Min(NumLayers, Len(CacheArg))

NoLocals ==
    /\ raw = [arr |-> FALSE, vs |-> None]
    /\ pixel = FALSE
    /\ embeds = FALSE
    /\ seqLen = 1
    /\ useCache = FALSE
    /\ mode = ""
    /\ apm = ""
    /\ h = NoHidden
    /\ maskOff = 0
    /\ li = 0
    /\ runs = <<>>
    /\ writes = 0
    /\ err = ""

InitCallVars ==
    /\ pc = "idle"
    /\ hasFusion \in BOOLEAN
    /\ lora \in [AdapterLayers -> ActiveTags]
    /\ kv = <<>>
    /\ hasKv = FALSE
    /\ fed = 0
    /\ NoLocals
    /\ pre = [lora |-> lora, kv |-> kv]

IdleCallVars ==
    /\ pc = "off"
    /\ hasFusion = FALSE
    /\ lora = UnsetLoraAdapter
    /\ kv = <<>>
    /\ hasKv = FALSE
    /\ fed = 0
    /\ NoLocals
    /\ pre = [lora |-> lora, kv |-> kv]

(* The locals of a call that has returned are gone.                        *)
DropLocals ==
    /\ raw' = [arr |-> FALSE, vs |-> None]
    /\ pixel' = FALSE
    /\ embeds' = FALSE
    /\ seqLen' = 1
    /\ useCache' = FALSE
    /\ mode' = ""
    /\ apm' = ""
    /\ h' = NoHidden
    /\ maskOff' = 0
    /\ li' = 0
    /\ runs' = <<>>
    /\ writes' = 0
    /\ err' = ""

Returned == pc \in {"idle", "done", "failed"}

(* The caller makes a fresh cache list of n slots for a new session.       *)
NewCache(n) ==
    /\ Returned
    /\ pc' = "idle"
    /\ kv' = [i \in 1..n |-> <<>>]
    /\ hasKv' = TRUE
    /\ fed' = 0
    /\ DropLocals
    /\ pre' = [lora |-> lora, kv |-> kv']
    /\ UNCHANGED <<hasFusion, lora>>
    /\ UNCHANGED <<cfgVars, buildVars>>

(* Entry of Phi4Model.__call__, lines 236-243.                             *)
Call(r, px, em, n, uc) ==
    /\ Returned
    /\ uc => hasKv /\ fed + n <= MaxTokens
    /\ pc' = "resolve"
    /\ raw' = r
    /\ pixel' = px
    /\ embeds' = em
    /\ seqLen' = n
    /\ useCache' = uc
    /\ mode' = ""
    /\ apm' = ""
    /\ h' = NoHidden
    /\ maskOff' = 0
    /\ li' = 0
    /\ runs' = <<>>
    /\ writes' = 0
    /\ err' = ""
    /\ pre' = [lora |-> lora, kv |-> kv]
    /\ UNCHANGED <<hasFusion, lora, kv, hasKv, fed>>
    /\ UNCHANGED <<cfgVars, buildVars>>

Raise(e) ==
    /\ pc' = "failed"
    /\ err' = e

(* Lines 244-248.                                                          *)
Resolve ==
    /\ pc = "resolve"
    /\ LET r == ResolveInputMode(raw) IN
         IF r.err # ""
         THEN Raise(r.err) /\ UNCHANGED mode
         ELSE pc' = StepAfter("resolve") /\ mode' = r.mode /\ UNCHANGED err
    /\ UNCHANGED <<hasFusion, lora, kv, hasKv, fed, raw, pixel, embeds, seqLen,
                   useCache, apm, h, maskOff, li, runs, writes, pre>>
    /\ UNCHANGED <<cfgVars, buildVars>>

(* Lines 250-260.                                                          *)
Select ==
    /\ pc = "select"
    /\ LET a == AdapterFor(mode) IN
         IF a.adapter = "invalid"
         THEN Raise("ValueError") /\ UNCHANGED <<lora, writes, apm>>
         ELSE /\ lora' = IF a.adapter = "none" THEN UnsetLoraAdapter
                         ELSE SetLoraAdapter(a.adapter)
              /\ writes' = writes + 1
              /\ apm' = a.apm
              /\ pc' = StepAfter("select")
              /\ UNCHANGED err
    /\ UNCHANGED <<hasFusion, kv, hasKv, fed, raw, pixel, embeds, seqLen,
                   useCache, mode, h, maskOff, li, runs, pre>>
    /\ UNCHANGED <<cfgVars, buildVars>>

(* Lines 262-276: calling embed_tokens_extend when it is None raises       *)
(* TypeError.                                                              *)
Embed ==
    /\ pc = "embed"
    /\ IF pixel
       THEN /\ h' = EmbedTokens(seqLen)
            /\ pc' = StepAfter("embed")
            /\ UNCHANGED err
       ELSE IF ~hasFusion
            THEN Raise("TypeError") /\ UNCHANGED h
            ELSE /\ h' = FusionEmbedding(seqLen, apm, embeds)
                 /\ pc' = StepAfter("embed")
                 /\ UNCHANGED err
    /\ UNCHANGED <<hasFusion, lora, kv, hasKv, fed, raw, pixel, embeds, seqLen,
                   useCache, mode, apm, maskOff, li, runs, writes, pre>>
    /\ UNCHANGED <<cfgVars, buildVars>>

(* Lines 278-282.                                                          *)
Mask ==
    /\ pc = "mask"
    /\ maskOff' = MaskOffset(IF useCache THEN Some(kv) ELSE None)
    /\ pc' = StepAfter("mask")
    /\ UNCHANGED <<hasFusion, lora, kv, hasKv, fed, raw, pixel, embeds, seqLen,
                   useCache, mode, apm, h, li, runs, writes, err, pre>>
    /\ UNCHANGED <<cfgVars, buildVars>>

(* Lines 284-285: one iteration of the loop, a whole TransformerBlock.     *)
RunLayer ==
    /\ pc = "layers"
    /\ li < ZipLen
    /\ LET i == li + 1
           c == CacheArg[i]
           first == IF useCache THEN fed ELSE 0
           r == AttentionCall(IF useCache THEN Some(c) ELSE None, first, seqLen, maskOff)
       IN /\ kv' = IF useCache THEN [kv EXCEPT ![i] = r.keys] ELSE kv
          /\ runs' = Append(runs, [layer |-> i, slot |-> IF useCache THEN i ELSE 0,
                                   first |-> first, lora |-> lora,
                                   qpos |-> r.qpos, seen |-> r.seen])
          /\ li' = i
    /\ UNCHANGED <<pc, hasFusion, lora, hasKv, fed, raw, pixel, embeds, seqLen,
                   useCache, mode, apm, h, maskOff, writes, err, pre>>
    /\ UNCHANGED <<cfgVars, buildVars>>

(* Line 287: the loop is exhausted, the final normalization.               *)
Norm ==
    /\ pc = "layers"
    /\ li = ZipLen
    /\ h' = [h EXCEPT !.normed = TRUE]
    /\ fed' = IF useCache THEN fed + seqLen ELSE fed
    /\ pc' = "done"
    /\ UNCHANGED <<hasFusion, lora, kv, hasKv, raw, pixel, embeds, seqLen,
                   useCache, mode, apm, maskOff, li, runs, writes, err, pre>>
    /\ UNCHANGED <<cfgVars, buildVars>>

-----------------------------------------------------------------------------
InitConfig == InitConfigVars /\ IdleBuildVars /\ IdleCallVars
NextConfig == PostInit \/ AttentionInit
SpecConfig == InitConfig /\ [][NextConfig]_vars

InitBuild == IdleConfigVars /\ InitBuildVars /\ IdleCallVars
NextBuild == VisionPass \/ SpeechPass
SpecBuild == InitBuild /\ [][NextBuild]_vars

Init == IdleConfigVars /\ IdleBuildVars /\ InitCallVars
Next ==
    \/ \E n \in 1..MaxSlots : NewCache(n)
    \/ \E r \in RawModes, px \in BOOLEAN, em \in BOOLEAN, n \in 1..MaxLen, uc \in BOOLEAN :
          Call(r, px, em, n, uc)
    \/ Resolve
    \/ Select
    \/ Embed
    \/ Mask
    \/ RunLayer
    \/ Norm
Spec == Init /\ [][Next]_vars

-----------------------------------------------------------------------------
(***************************************************************************)
(* Properties of Phi4Model.__call__ (specification Spec)                   *)
(***************************************************************************)
ExpectedTag(m) ==
    IF m \in {"VISION", "VISION_SPEECH"} THEN "vision"
    ELSE IF m = "SPEECH" THEN "speech"
    ELSE "none"

AllTagged(l, t) == \A a \in AdapterLayers : l[a] = t

ModeRecognized == mode \in {"LANGUAGE", "VISION", "SPEECH", "VISION_SPEECH"}

C2_OneSwitchBeforeLayers ==
    /\ writes <= 1
    /\ pc \in {"embed", "mask", "layers", "done"} => writes = 1
    /\ h # NoHidden \/ runs # <<>> => writes = 1
    /\ \A i \in 1..Len(runs) :
          /\ runs[i].lora = lora
          /\ AllTagged(runs[i].lora, ExpectedTag(mode))

(* A completed call that ran every layer after replacing the tag an        *)
(* earlier call had left.                                                  *)
C2_Witness ==
    /\ pc = "done"
    /\ Len(runs) = NumLayers
    /\ writes = 1
    /\ AllTagged(pre.lora, "vision")
    /\ AllTagged(lora, "speech")

(* input_mode is a value (None, an integer, or a one-element array) that   *)
(* is none of the four members' values.                                    *)
Unrecognized(r) ==
    /\ ~r.arr \/ Len(r.vs) = 1
    /\ r.vs \notin {Some(v) : v \in 0..3}

(* C3: a call whose input_mode is not one of the four recognized values    *)
(* fails with the invalid-mode error before anything else happens: no tag  *)
(* is changed, no embedding is looked up, no layer runs and no cache slot  *)
(* is appended to.                                                         *)
C3_InvalidModeNoEffect ==
    pc \notin {"idle", "resolve"} /\ Unrecognized(raw) =>
        /\ pc = "failed"
        /\ err = "ValueError"
        /\ writes = 0
        /\ lora = pre.lora
        /\ kv = pre.kv
        /\ h = NoHidden
        /\ runs = <<>>

(* An invalid-mode call made in the middle of a cached session with an     *)
(* adapter active.                                                         *)
C3_Witness ==
    /\ pc = "failed"
    /\ Unrecognized(raw)
    /\ useCache
    /\ fed > 0
    /\ AllTagged(lora, "vision")

(* C4: in every layer run, cached or not, the query of session token k is  *)
(* rotated with position k-1 (the cache offset read before the append) and *)
(* attends over the keys of tokens 1..k at positions 0..k-1 in order,      *)
(* which is what token k sees in a single pass over k tokens with no       *)
(* cache; layer i reads and appends slot i.                                *)
C4_CacheRoundTrip ==
    \A i \in 1..Len(runs) : \A j \in 1..seqLen :
        LET r    == runs[i]
            k    == r.first + j
            full == AttentionCall(None, 0, k, 0)
        IN  /\ r.qpos[j] = k - 1
            /\ r.seen[j] = [m \in 1..k |-> <<m, m - 1>>]
            /\ r.qpos[j] = full.qpos[k]
            /\ r.seen[j] = full.seen[k]
            /\ r.slot > 0 => r.slot = r.layer /\ r.qpos[1] = Len(pre.kv[r.slot])

(* The third single-token step of a session over a per-layer cache.        *)
C4_Witness ==
    /\ pc = "done"
    /\ useCache
    /\ seqLen = 1
    /\ Len(kv) = NumLayers
    /\ Len(runs) = NumLayers
    /\ \A i \in Layers : Len(pre.kv[i]) = 2 /\ Len(kv[i]) = 3
    /\ runs[NumLayers].qpos = <<2>>

(* C5: every completed call has run all N layers once, in index order,     *)
(* layer i on slot i of the supplied cache list, and with a cache every    *)
(* one of the N slots has grown by the sequence length, whatever the       *)
(* number of slots in the list.                                            *)
C5_AllLayersEveryCall ==
    pc = "done" =>
        /\ Len(runs) = NumLayers
        /\ \A i \in 1..Len(runs) :
              runs[i].layer = i /\ runs[i].slot = (IF useCache THEN i ELSE 0)
        /\ useCache =>
              /\ Len(kv) >= NumLayers
              /\ \A i \in Layers : Len(kv[i]) = Len(pre.kv[i]) + seqLen

(* C9: once the mode is recognized, a call with pixel_values gets the      *)
(* plain token embeddings and ignores the embeds, a call without gets the  *)
(* fusion embedding with the token table as wte and the audio projection   *)
(* mode of its input mode; either way one hidden_size vector per token.    *)
C9_EmbeddingPath ==
    pc \in {"mask", "layers", "done"} \/ (pc = "failed" /\ ModeRecognized) =>
        /\ h.len = seqLen
        /\ h.dim = "hidden_size"
        /\ IF pixel
           THEN h.path = "embed_tokens" /\ ~h.embeds
           ELSE /\ h.path = "embed_tokens_extend"
                /\ h.wte
                /\ h.embeds = embeds
                /\ h.apm = (IF mode \in {"VISION", "VISION_SPEECH"} THEN "vision" ELSE "speech")

(***************************************************************************)
(* Properties of ModelConfig and Attention construction (SpecConfig)       *)
(***************************************************************************)
RecognizedTypes == {"linear", "su", "longrope"}

UnrecognizedType(rs) ==
    Truthy(rs) /\ Has(rs, "type") /\ rs.d["type"] \notin RecognizedTypes

UnscaledOutcome ==
    /\ cpc \in {"accepted", "built"}
    /\ warned
    /\ ropeScaling = NoDict
    /\ cpc = "built" => rope = [kind |-> "fixed", scale |-> "1.0"]

(* C6, as stated: a descriptor with an unrecognized type never makes       *)
(* construction fail, whatever other keys it has or lacks: a warning is    *)
(* printed, rope_scaling is None and the encoder is the unscaled one.      *)
C6_UnrecognizedTypeNeverFails ==
    cpc # "new" /\ UnrecognizedType(rsOrig) => UnscaledOutcome

(* C6, amended: a descriptor with an unrecognized type that has the        *)
(* 'long_factor' key is accepted with a warning, rope_scaling None and the *)
(* unscaled encoder; one without 'long_factor' is rejected with ValueError *)
(* and no warning.                                                         *)
C6_UnrecognizedTypeWithLongFactor ==
    cpc # "new" /\ UnrecognizedType(rsOrig) =>
        IF Has(rsOrig, "long_factor")
        THEN UnscaledOutcome
        ELSE cpc = "rejected" /\ cerr = "ValueError" /\ ~warned

(* An Attention built from a descriptor of unrecognized type.              *)
C6_Witness ==
    /\ cpc = "built"
    /\ UnrecognizedType(rsOrig)
    /\ Has(rsOrig, "long_factor")
    /\ warned
    /\ rope = [kind |-> "fixed", scale |-> "1.0"]

MissingRequired(rs) ==
    /\ Truthy(rs)
    /\ \/ ~Has(rs, "type")
       \/ /\ rs.d["type"] \in {"su", "longrope"}
          /\ ~(Has(rs, "short_factor") /\ Has(rs, "long_factor"))

(* C7: a non-empty descriptor without 'type', or of type su/longrope       *)
(* without both factor tables, is rejected by __post_init__ with           *)
(* ValueError.                                                             *)
C7_MissingKeyRejectedAtConfig ==
    cpc # "new" /\ MissingRequired(rsOrig) => cpc = "rejected" /\ cerr = "ValueError"

(* C10: an accepted config has rope_scaling unset or complete for its      *)
(* type, and Attention.__init__ builds the encoder of that type from it.   *)
C10_AcceptedConfigBuilds ==
    cpc \in {"accepted", "built", "buildfailed"} =>
        /\ \/ ~Truthy(ropeScaling)
           \/ /\ Has(ropeScaling, "type")
              /\ ropeScaling.d["type"] \in RecognizedTypes
              /\ ropeScaling.d["type"] \in {"su", "longrope"} =>
                    Has(ropeScaling, "short_factor") /\ Has(ropeScaling, "long_factor")
              /\ ropeScaling.d["type"] = "linear" =>
                    Has(ropeScaling, "factor") /\ ropeScaling.d["factor"] = "float"
        /\ cpc # "buildfailed"
        /\ cpc = "built" =>
              rope = IF ~Truthy(ropeScaling) THEN [kind |-> "fixed", scale |-> "1.0"]
                     ELSE IF ropeScaling.d["type"] = "linear"
                          THEN [kind |-> "fixed", scale |-> "1/factor"]
                     ELSE [kind |-> "su", scale |-> "tables"]

(***************************************************************************)
(* Properties of Phi4Model.__init__ (SpecBuild)                            *)
(***************************************************************************)
(* C8: after both passes every projection whose name matches the vision    *)
(* pattern holds a vision delta and every one whose name matches the       *)
(* speech pattern a speech delta, both on one projection when both match,  *)
(* and never two deltas of one tag.                                        *)
C8_BothDeltasKept ==
    bpc = "built" =>
        \A p \in Projections :
            /\ <<p, "">> \in visionLora.layer => "vision" \in Deltas(p)
            /\ <<p, "">> \in speechLora.layer => "speech" \in Deltas(p)
            /\ Cardinality(Deltas(p)) = Len(modules[p])

====
